---- MODULE Spec2Model ----
(***************************************************************************)
(* State-machine model of the AAGNet inference handler                     *)
(* (supabase/functions/python-aagnet-inference/index.py).                  *)
(*                                                                         *)
(* Spec is the handler as a whole, one request from body to response.      *)
(* SpecExtract is the handler from extract_aag_features on, for meshes of  *)
(* any size; SpecHeads is the handler from the outputs of the three heads  *)
(* on (thresholding, clustering, assembly), which the whole handler does   *)
(* not reach with the network it configures; SpecCluster is the clustering *)
(* loop row by row.                                                        *)
(*                                                                         *)
(* Face ids are 0-based as in the source.  Floating point quotients are    *)
(* kept exact as reduced fractions <<numerator, denominator>>.             *)
(***************************************************************************)
EXTENDS Integers, Sequences, FiniteSets, TLC

VARIABLES
    phase,             \* "idle", "responded"; for the parts alone "extract", "extracted",
                       \* "heads", "done", "replayed", "cluster"
    num_faces,         \* mesh['num_faces'] = number of rows of node_features
    mesh,              \* the dict returned by parse_step_to_mesh
    face_logits,       \* seg_out: per face, one logit per class
    inst_out,          \* inst_out[0]: the N x N matrix of pair logits assembled by forward
    bottom_logits,     \* (bottom_out.sigmoid() > 0.5): per face flag
    adj,               \* (inst_matrix > 0.5).astype('int32')
    used_flags,        \* used_flags of the clustering loop
    row_idx,           \* rows the clustering loop went through (0 when it was not entered)
    proposals,         \* the Python set `proposals`, as its hash table
    result,            \* body of the response of the first run
    replay,            \* the run of a second request in another process: what the
                       \* variables above hold for the first
    request,           \* what one call of the handler is given: body, storage, random stream
    model,             \* the model returned by load_trained_model
    raised,            \* the exception that ended the run, and the step that raised it
    status_code,       \* statusCode of the response
    aag_features       \* what extract_aag_features returned

vars == <<phase, num_faces, mesh, face_logits, inst_out, bottom_logits, adj,
          used_flags, row_idx, proposals, result, replay,
          request, model, raised, status_code, aag_features>>

----------------------------------------------------------------------------
(* Bounds of the model *)

\* largest number of faces of a request (parse_step_to_mesh always makes 50)
MaxFaces == 4

\* largest number of faces when the clustering loop is run on an arbitrary matrix
MaxClusterFaces == 3

----------------------------------------------------------------------------
(* Program constants *)

\* num_classes of the trained architecture
NumClasses == 25

\* index of 'stock' in feat_names, the class the assembly skips
BACKGROUND == 24

feat_names ==
    << "chamfer", "through_hole", "triangular_passage", "rectangular_passage", "6sides_passage",
       "triangular_through_slot", "rectangular_through_slot", "circular_through_slot",
       "rectangular_through_step", "2sides_through_step", "slanted_through_step", "Oring", "blind_hole",
       "triangular_pocket", "rectangular_pocket", "6sides_pocket", "circular_end_pocket",
       "rectangular_blind_slot", "v_circular_end_blind_slot", "h_circular_end_blind_slot",
       "triangular_blind_step", "circular_blind_step", "rectangular_blind_step", "round", "stock" >>

Classes == 0 .. (NumClasses - 1)

----------------------------------------------------------------------------
(* Exact arithmetic standing for Python floats *)

Abs(x) == IF x < 0 THEN -x ELSE x

RECURSIVE Gcd(_, _)
Gcd(a, b) == IF b = 0 THEN a ELSE Gcd(b, a % b)

\* the quotient n / d (d > 0), reduced
Rat(n, d) ==
    LET g == Gcd(Abs(n), d)
    IN  <<n \div g, d \div g>>

RatLess(p, q) == p[1] * q[2] < q[1] * p[2]

----------------------------------------------------------------------------
(* The Python containers the handler uses *)

\* hash(frozenset(key)) of CPython 3.11 as an unsigned 64-bit number, in groups
\* of 5 bits from the low end: (h >> 5k) & 31 for k = 0, 1, ...
\* The hash of an int is the int, that of a frozenset is computed from the
\* hashes of its members; the per-process hash secret salts str and bytes
\* only, so these values are those of every process.
FrozensetHashDigits(key) ==
    CASE key = {} -> <<24, 23, 29, 13, 4, 17, 2, 3, 25, 3, 0, 0, 0>>
      [] key = {0} -> <<30, 19, 2, 31, 13, 25, 21, 3, 20, 4, 30, 20, 13>>
      [] key = {1} -> <<18, 8, 27, 26, 27, 15, 30, 9, 27, 10, 16, 16, 15>>
      [] key = {2} -> <<1, 19, 8, 10, 28, 15, 27, 2, 6, 13, 16, 4, 4>>
      [] key = {3} -> <<16, 3, 19, 29, 19, 17, 0, 28, 28, 29, 18, 22, 5>>
      [] key = {4} -> <<29, 14, 23, 31, 0, 30, 25, 12, 14, 15, 13, 29, 7>>
      [] key = {0, 1} -> <<9, 26, 7, 17, 25, 29, 15, 28, 13, 1, 26, 25, 7>>
      [] key = {0, 2} -> <<10, 1, 28, 19, 7, 13, 15, 12, 25, 1, 13, 22, 12>>
      [] key = {0, 3} -> <<7, 21, 31, 19, 6, 4, 19, 18, 18, 11, 7, 1, 12>>
      [] key = {0, 4} -> <<14, 29, 26, 0, 13, 18, 3, 4, 25, 25, 31, 23, 14>>
      [] key = {1, 2} -> <<6, 27, 25, 11, 23, 1, 0, 0, 19, 19, 9, 13, 14>>
      [] key = {1, 3} -> <<27, 13, 31, 15, 29, 5, 23, 21, 28, 11, 10, 25, 2>>
      [] key = {1, 4} -> <<2, 28, 29, 21, 17, 15, 1, 7, 7, 13, 26, 4, 1>>
      [] key = {2, 3} -> <<4, 16, 22, 15, 28, 5, 4, 15, 1, 19, 5, 22, 5>>
      [] key = {2, 4} -> <<17, 1, 22, 29, 14, 6, 8, 24, 7, 9, 3, 29, 5>>
      [] key = {3, 4} -> <<0, 1, 12, 21, 13, 16, 6, 15, 29, 18, 23, 25, 8>>
      [] key = {0, 1, 2} -> <<6, 10, 18, 29, 5, 19, 29, 10, 30, 7, 12, 25, 11>>
      [] key = {0, 1, 3} -> <<27, 18, 0, 18, 14, 19, 19, 13, 2, 5, 14, 16, 6>>
      [] key = {0, 1, 4} -> <<2, 27, 27, 0, 3, 8, 22, 15, 29, 25, 2, 26, 12>>
      [] key = {0, 2, 3} -> <<4, 21, 11, 1, 24, 23, 21, 23, 25, 21, 9, 5, 9>>
      [] key = {0, 2, 4} -> <<17, 0, 8, 12, 4, 29, 4, 27, 25, 15, 13, 26, 1>>
      [] key = {0, 3, 4} -> <<0, 22, 19, 2, 3, 1, 25, 11, 10, 29, 21, 31, 13>>
      [] key = {1, 2, 3} -> <<24, 13, 23, 19, 7, 2, 16, 0, 20, 2, 14, 24, 15>>
      [] key = {1, 2, 4} -> <<5, 31, 22, 23, 1, 15, 15, 16, 20, 24, 0, 11, 4>>
      [] key = {1, 3, 4} -> <<28, 9, 2, 11, 16, 24, 25, 19, 18, 6, 2, 30, 3>>
      [] key = {2, 3, 4} -> <<3, 20, 19, 12, 9, 28, 30, 10, 7, 24, 5, 23, 6>>
      [] key = {0, 1, 2, 3} -> <<19, 23, 28, 5, 5, 17, 3, 21, 20, 22, 11, 11, 6>>
      [] key = {0, 1, 2, 4} -> <<26, 31, 2, 25, 31, 7, 4, 1, 4, 31, 8, 29, 10>>
      [] key = {0, 1, 3, 4} -> <<23, 22, 24, 1, 2, 2, 12, 0, 4, 9, 10, 8, 12>>
      [] key = {0, 2, 3, 4} -> <<8, 17, 0, 0, 8, 30, 27, 15, 7, 26, 27, 24, 14>>
      [] key = {1, 2, 3, 4} -> <<20, 30, 3, 29, 7, 9, 22, 24, 11, 26, 23, 26, 4>>
      [] key = {0, 1, 2, 3, 4} -> <<6, 17, 25, 3, 27, 7, 11, 10, 14, 18, 16, 9, 10>>

\* hash(n) of a small non-negative int is n, in the same groups of 5 bits
IntHashDigits(n) == << n % 32, (n \div 32) % 32, (n \div 1024) % 32 >>

Digit(h, j) == IF j <= Len(h) THEN h[j] ELSE 0

\* (h >> 5k) & mask, for a mask below 2^15
HashBits(h, k, mask) ==
    (Digit(h, k + 1) + 32 * Digit(h, k + 2) + 1024 * Digit(h, k + 3)) % (mask + 1)

\* a set is its table: slot i is empty (<<>>) or holds <<key, hash>>
NewTable(size) == [i \in 0 .. (size - 1) |-> <<>>]

\* set(): 8 slots
EmptySet == NewTable(8)

SetMask(table) == Cardinality(DOMAIN table) - 1

SetUsed(table) == Cardinality({i \in DOMAIN table : table[i] # <<>>})

\* the slot a key ends in: from slot i, up to 9 following slots when they fit
\* below the mask, then i = (5 i + 1 + perturb) & mask with perturb >>= 5
RECURSIVE SetProbe(_, _, _, _, _, _)
SetProbe(table, key, h, i, k, round) ==
    IF table[i + k] = <<>> THEN i + k
    ELSE IF table[i + k][1] = key THEN i + k
    ELSE IF k < (IF i + 9 <= SetMask(table) THEN 9 ELSE 0)
    THEN SetProbe(table, key, h, i, k + 1, round)
    ELSE SetProbe(table, key, h,
                  (i * 5 + 1 + HashBits(h, round + 1, SetMask(table)))
                      % (SetMask(table) + 1),
                  0, round + 1)

\* the smallest table size above minused: 8, 16, 32, ...
RECURSIVE TableSize(_, _)
TableSize(size, minused) ==
    IF size <= minused THEN TableSize(2 * size, minused) ELSE size

\* the entries of a table in slot order
SetEntries(table) ==
    SelectSeq([i \in 1 .. (SetMask(table) + 1) |-> table[i - 1]], LAMBDA e : e # <<>>)

\* the entries from the k-th on, inserted into new one after the other
RECURSIVE SetRebuild(_, _, _)
SetRebuild(entries, k, new) ==
    IF k > Len(entries) THEN new
    ELSE SetRebuild(entries, k + 1,
             [new EXCEPT ![SetProbe(new, entries[k][1], entries[k][2],
                                    HashBits(entries[k][2], 0, SetMask(new)), 0, 0)]
                             = entries[k]])

\* set.add: a new key takes its slot; the table grows to the size above
\* 4 * used once fill * 5 >= mask * 3
SetInsert(table, key, h) ==
    LET i == SetProbe(table, key, h, HashBits(h, 0, SetMask(table)), 0, 0)
    IN  IF table[i] # <<>> THEN table
        ELSE IF (SetUsed(table) + 1) * 5 < SetMask(table) * 3
        THEN [table EXCEPT ![i] = <<key, h>>]
        ELSE SetRebuild(SetEntries([table EXCEPT ![i] = <<key, h>>]), 1,
                        NewTable(TableSize(8, (SetUsed(table) + 1) * 4)))

\* proposals.add(frozenset(proposal))
SetAdd(table, key) == SetInsert(table, key, FrozensetHashDigits(key))

\* the members of a set
SetMembers(table) == {table[i][1] : i \in {j \in DOMAIN table : table[j] # <<>>}}

\* iteration of a set: the keys in slot order
SetIter(table) == [k \in 1 .. SetUsed(table) |-> SetEntries(table)[k][1]]

\* proposal = set(); proposal.add(col_idx) for the columns in increasing order
RECURSIVE ProposalSet(_, _)
ProposalSet(cols, table) ==
    IF cols = {} THEN table
    ELSE LET c == CHOOSE x \in cols : \A y \in cols : x <= y
             t == SetInsert(table, c, IntHashDigits(c))
         IN  IF t = table THEN ProposalSet(cols \ {c}, table)
             ELSE ProposalSet(cols \ {c}, t)

\* frozenset(proposal): a fresh 8-slot table, grown to the size above 2 * used
\* when used * 5 >= 7 * 3; a table of the same size is copied slot by slot,
\* otherwise the entries are inserted in slot order
Frozenset(table) ==
    IF SetUsed(table) = 0 THEN EmptySet
    ELSE LET size == IF SetUsed(table) * 5 >= 21
                     THEN TableSize(8, SetUsed(table) * 2) ELSE 8
         IN  IF size = SetMask(table) + 1 THEN table
             ELSE SetRebuild(SetEntries(table), 1, NewTable(size))

\* list(instance) for instance = frozenset(proposal)
SetToList(S) == SetIter(Frozenset(ProposalSet(S, EmptySet)))

----------------------------------------------------------------------------
(* Feature clustering: the loop over the rows of adj *)

Faces(n) == 0 .. (n - 1)

\* np.sum(row)
RECURSIVE RowSumFrom(_, _, _)
RowSumFrom(row, n, c) == IF c = n THEN 0 ELSE row[c] + RowSumFrom(row, n, c + 1)

RowSum(row, n) == RowSumFrom(row, n, 0)

\* the inner loop `for col_idx, item in enumerate(row)`
RECURSIVE ScanCols(_, _, _, _, _)
ScanCols(row, n, col_idx, used, proposal) ==
    IF col_idx = n
    THEN [used |-> used, proposal |-> proposal]
    ELSE IF ~used[col_idx] /\ row[col_idx] # 0
         THEN ScanCols(row, n, col_idx + 1,
                       [used EXCEPT ![col_idx] = TRUE], proposal \cup {col_idx})
         ELSE ScanCols(row, n, col_idx + 1, used, proposal)

\* a plausible slip: every unvisited row seeds a group with itself
ClusterRowSeeded(a, n, r, used, props) ==
    IF used[r]
    THEN [used |-> used, proposals |-> props]
    ELSE LET s == ScanCols(a[r], n, 0, [used EXCEPT ![r] = TRUE], {r})
         IN  [used |-> s.used, proposals |-> SetAdd(props, s.proposal)]

\* a plausible slip: the columns taken are not marked as used
ClusterRowNoMark(a, n, r, used, props) ==
    IF used[r] \/ RowSum(a[r], n) <= 0
    THEN [used |-> used, proposals |-> props]
    ELSE LET p == {c \in Faces(n) : a[r][c] # 0}
         IN  [used |-> used, proposals |-> SetAdd(props, p)]

\* a plausible slip: the proposal is added without the `if proposal:` test
ClusterRowNoTest(a, n, r, used, props) ==
    IF used[r] \/ RowSum(a[r], n) <= 0
    THEN [used |-> used, proposals |-> props]
    ELSE LET s == ScanCols(a[r], n, 0, used, {})
         IN  [used |-> s.used, proposals |-> SetAdd(props, s.proposal)]

\* a plausible slip: the seed row joins its own group
ClusterRowSelf(a, n, r, used, props) ==
    IF used[r] \/ RowSum(a[r], n) <= 0
    THEN [used |-> used, proposals |-> props]
    ELSE LET s == ScanCols(a[r], n, 0, [used EXCEPT ![r] = TRUE], {r})
         IN  [used |-> s.used, proposals |-> SetAdd(props, s.proposal)]

\* one iteration of `for row_idx, row in enumerate(adj)`; eps = 1e-6 and the
\* entries are the integers 0 and 1, so np.sum(row) <= eps is sum <= 0
ClusterRow(a, n, r, used, props) ==
    IF used[r] \/ RowSum(a[r], n) <= 0
    THEN [used |-> used, proposals |-> props]
    ELSE LET s == ScanCols(a[r], n, 0, used, {})
         IN  IF s.proposal # {}
             THEN [used |-> s.used, proposals |-> SetAdd(props, s.proposal)]
             ELSE [used |-> s.used, proposals |-> props]

\* the whole loop, from row r on
RECURSIVE ClusterFrom(_, _, _, _, _)
ClusterFrom(a, n, r, used, props) ==
    IF r = n
    THEN [used |-> used, proposals |-> props]
    ELSE LET s == ClusterRow(a, n, r, used, props)
         IN  ClusterFrom(a, n, r + 1, s.used, s.proposals)

\* used_flags = np.zeros(...); proposals = set(); then the loop
Cluster(a, n) == ClusterFrom(a, n, 0, [f \in Faces(n) |-> FALSE], EmptySet)

----------------------------------------------------------------------------
(* Model outputs and their thresholding *)

\* the unordered pairs (i, j), i < j, forward evaluates the instance head on
FacePairs(n) == {p \in Faces(n) \X Faces(n) : p[1] < p[2]}

\* forward: inst_matrix = zeros(N, N), then entry (i, j) and (j, i) get the pair's logit
InstMatrix(n, pair_logit) ==
    [i \in Faces(n) |-> [j \in Faces(n) |->
        IF i < j THEN pair_logit[<<i, j>>]
        ELSE IF j < i THEN pair_logit[<<j, i>>]
        ELSE 0]]

\* a plausible slip: the threshold taken inclusively, (sigmoid >= 0.5)
SigmoidAtLeastHalf(x) == x >= 0

\* sigmoid(x) > 0.5: 1 / (1 + e^-x) exceeds one half exactly when x > 0
SigmoidAboveHalf(x) == x > 0

\* adj = (inst_out[0].sigmoid() > 0.5).astype('int32')
AdjOf(n, inst) ==
    [i \in Faces(n) |-> [j \in Faces(n) |-> IF SigmoidAboveHalf(inst[i][j]) THEN 1 ELSE 0]]

\* bottom_logits = (bottom_out.sigmoid() > 0.5)
BottomFlags(n, bottom_out) == [f \in Faces(n) |-> SigmoidAboveHalf(bottom_out[f])]

----------------------------------------------------------------------------
(* The mesh of parse_step_to_mesh: four fresh vertices per face *)

\* the i-th draw of one run's random stream, uniform in lo .. hi
RandomUniform(seed, i, lo, hi) == lo + ((seed * 7 + i * 5) % (hi - lo + 1))

\* the intervals the 10 attributes of a face are drawn from: area, normal
\* (3), centre (3), curvature, convexity, planarity
AttributeRanges ==
    << <<0, 1>>, <<-1, 1>>, <<-1, 1>>, <<-1, 1>>, <<-5, 5>>, <<-5, 5>>, <<-5, 5>>,
       <<0, 2>>, <<0, 1>>, <<0, 1>> >>

\* np.random.uniform(lo, hi) = lo + (hi - lo) * u, for u one of 1/8, 3/8, 5/8, 7/8
NpUniform(lo, hi, d) == Rat(8 * lo + (hi - lo) * (2 * d + 1), 8)

\* face_attributes: one row of 10 draws per face
AttributeRows(n, seed) ==
    [i \in Faces(n) |-> [c \in 1 .. 10 |->
        NpUniform(AttributeRanges[c][1], AttributeRanges[c][2],
                  RandomUniform(seed, 3 * i + c, 0, 3))]]

\* adjacency = (np.random.rand(N, N) > 0.8).astype(float): one draw per ordered
\* pair, the diagonal included
RandomAdjacency(n, seed) ==
    [i \in Faces(n) |-> [j \in Faces(n) |->
        IF (seed * i + 2 * j + seed) % 5 = 0 THEN 1 ELSE 0]]

\* the k-th vertex; stands for three np.random.uniform(-10, 10) draws
Vertex(seed, k) == << ((k + seed) % 5) - 2, ((2 * k + 3 * seed) % 7) - 3, ((k * (seed + 1)) % 4) - 1 >>

\* the mesh the simulation loop builds in n rounds: 4 fresh vertices, one
\* face and one attribute row per round, then the adjacency draws
SimulatedMesh(n, seed) ==
    [ vertices  |-> [k \in 0 .. (4 * n - 1) |-> Vertex(seed, k)],
      faces     |-> [i \in Faces(n) |-> <<4 * i, 4 * i + 1, 4 * i + 2, 4 * i + 3>>],
      face_attributes  |-> AttributeRows(n, seed),
      adjacency_matrix |-> RandomAdjacency(n, seed),
      num_faces |-> n ]

\* for i in range(50): the number of faces does not depend on the input
SimulatedFaces == 50

\* len() of an array indexed from 0
ArrayLen(arr) == Cardinality(DOMAIN arr)

----------------------------------------------------------------------------
(* Machining parameters *)

\* generate_machining_params(feature_type, dimension)
generate_machining_params(feature_type, dimension) ==
    IF feature_type = "hole"
    THEN [ tool_type |-> "drill", tool_diameter |-> Rat(dimension * 9, 10),
           speed |-> 1200, feed_rate |-> Rat(1, 10), plunge_rate |-> Rat(5, 100) ]
    ELSE IF feature_type = "pocket"
    THEN [ tool_type |-> "end_mill", tool_diameter |-> Rat(dimension * 3, 10),
           speed |-> 800, feed_rate |-> Rat(2, 10), step_over |-> Rat(6, 10),
           step_down |-> Rat(5, 10) ]
    ELSE IF feature_type = "slot"
    THEN [ tool_type |-> "end_mill", tool_diameter |-> Rat(dimension * 8, 10),
           speed |-> 1000, feed_rate |-> Rat(15, 100), step_down |-> Rat(3, 10) ]
    ELSE [ tool_type |-> "end_mill", tool_diameter |-> Rat(dimension * 5, 10),
           speed |-> 1000, feed_rate |-> Rat(1, 10) ]

----------------------------------------------------------------------------
(* Feature assembly: the loop over the proposals *)

\* one class of sum(face_logits[face] for face in instance_list)
RECURSIVE SumClassFrom(_, _, _, _)
SumClassFrom(instance_list, logits, c, k) ==
    IF k > Len(instance_list)
    THEN 0
    ELSE logits[instance_list[k]][c] + SumClassFrom(instance_list, logits, c, k + 1)

SumInstLogit(instance_list, logits) ==
    [c \in Classes |-> SumClassFrom(instance_list, logits, c, 1)]

\* np.max over the classes
RECURSIVE NpMaxFrom(_, _, _)
NpMaxFrom(s, c, best) ==
    IF c = NumClasses THEN best
    ELSE NpMaxFrom(s, c + 1, IF s[c] > best THEN s[c] ELSE best)

NpMax(s) == NpMaxFrom(s, 1, s[0])

\* a plausible slip: the last maximal index instead of the first
RECURSIVE NpArgmaxLastFrom(_, _, _)
NpArgmaxLastFrom(s, c, best) ==
    IF c = NumClasses THEN best
    ELSE NpArgmaxLastFrom(s, c + 1, IF s[c] >= s[best] THEN c ELSE best)

NpArgmaxLast(s) == NpArgmaxLastFrom(s, 1, 0)

\* np.argmax: the first index holding the maximum
RECURSIVE NpArgmaxFrom(_, _, _)
NpArgmaxFrom(s, c, best) ==
    IF c = NumClasses THEN best
    ELSE NpArgmaxFrom(s, c + 1, IF s[c] > s[best] THEN c ELSE best)

NpArgmax(s) == NpArgmaxFrom(s, 1, 0)

\* a plausible slip: the summed logit is not divided by the group size
ConfidenceUndivided(sum_inst_logit, instance_list) ==
    Rat(NpMax(sum_inst_logit), 1)

\* confidence = float(np.max(sum_inst_logit) / len(instance_list))
Confidence(sum_inst_logit, instance_list) ==
    Rat(NpMax(sum_inst_logit), Len(instance_list))

\* bottoms = [f for f in instance_list if bottom_logits[f]]
Bottoms(instance_list, flags) == SelectSeq(instance_list, LAMBDA f : flags[f])

\* a plausible slip: the index one past the last class, which never matches
SkipStockOffByOne(inst_logit) == inst_logit = BACKGROUND + 1

\* `if inst_logit == 24: continue`
SkipStock(inst_logit) == inst_logit = BACKGROUND

\* a plausible slip: the mean of all four vertices of the face
FacePositionQuad(m, face) ==
    LET v1 == m.vertices[face[1]]
        v2 == m.vertices[face[2]]
        v3 == m.vertices[face[3]]
        v4 == m.vertices[face[4]]
    IN  << Rat(v1[1] + v2[1] + v3[1] + v4[1], 4),
           Rat(v1[2] + v2[2] + v3[2] + v4[2], 4),
           Rat(v1[3] + v2[3] + v3[3] + v4[3], 4) >>

\* position: the mean of the first three vertices of one face
FacePosition(m, face) ==
    LET v1 == m.vertices[face[1]]
        v2 == m.vertices[face[2]]
        v3 == m.vertices[face[3]]
    IN  << Rat(v1[1] + v2[1] + v3[1], 3),
           Rat(v1[2] + v2[2] + v3[2], 3),
           Rat(v1[3] + v2[3] + v3[3], 3) >>

\* a plausible slip: the confidence mocked with a draw of the random stream,
\* as the dimensions next to it are
FeatureOfMockConfidence(instance, count, logits, flags, m, seed) ==
    LET instance_list == SetToList(instance)
        sum_inst_logit == SumInstLogit(instance_list, logits)
        inst_logit == NpArgmax(sum_inst_logit)
    IN  IF SkipStock(inst_logit)
        THEN <<>>
        ELSE IF instance_list = <<>> THEN <<>>
        ELSE IF ~(instance_list[1] < ArrayLen(m.vertices)) THEN <<>>
        ELSE IF ~(instance_list[1] < ArrayLen(m.faces)) THEN <<>>
        ELSE IF ~(Len(m.faces[instance_list[1]]) >= 3) THEN <<>>
        ELSE LET inst_name == feat_names[inst_logit + 1]
                 width  == RandomUniform(seed, 3 * count, 5, 20)
                 height == RandomUniform(seed, 3 * count + 1, 5, 20)
                 depth  == RandomUniform(seed, 3 * count + 2, 2, 10)
             IN  << [ id               |-> count,
                      type             |-> inst_name,
                      confidence       |-> Rat(RandomUniform(seed, 3 * count + 3, 50, 99), 100),
                      position         |-> FacePosition(m, m.faces[instance_list[1]]),
                      dimensions       |-> [width |-> width, height |-> height, depth |-> depth],
                      machining_params |-> generate_machining_params(inst_name, width),
                      faces            |-> instance_list,
                      bottoms          |-> Bottoms(instance_list, flags) ] >>

\* the body of `for instance in proposals` for one instance: the features it
\* appends (none or one) when `count` features were appended before
FeatureOf(instance, count, logits, flags, m, seed) ==
    LET instance_list == SetToList(instance)
        sum_inst_logit == SumInstLogit(instance_list, logits)
        inst_logit == NpArgmax(sum_inst_logit)
    IN  IF SkipStock(inst_logit)
        THEN <<>>
        \* an empty list gives nan with a warning, then fails `if instance_list`
        ELSE IF instance_list = <<>> THEN <<>>
        ELSE IF ~(instance_list[1] < ArrayLen(m.vertices)) THEN <<>>
        ELSE IF ~(instance_list[1] < ArrayLen(m.faces)) THEN <<>>
        ELSE IF ~(Len(m.faces[instance_list[1]]) >= 3) THEN <<>>
        ELSE LET inst_name == feat_names[inst_logit + 1]
                 width  == RandomUniform(seed, 3 * count, 5, 20)
                 height == RandomUniform(seed, 3 * count + 1, 5, 20)
                 depth  == RandomUniform(seed, 3 * count + 2, 2, 10)
             IN  << [ id               |-> count,
                      type             |-> inst_name,
                      confidence       |-> Confidence(sum_inst_logit, instance_list),
                      position         |-> FacePosition(m, m.faces[instance_list[1]]),
                      dimensions       |-> [width |-> width, height |-> height, depth |-> depth],
                      machining_params |-> generate_machining_params(inst_name, width),
                      faces            |-> instance_list,
                      bottoms          |-> Bottoms(instance_list, flags) ] >>

\* the loop over the instances, in the order the set yields them
RECURSIVE AssembleFrom(_, _, _, _, _, _, _)
AssembleFrom(order, k, detected, logits, flags, m, seed) ==
    IF k > Len(order)
    THEN detected
    ELSE AssembleFrom(order, k + 1,
                      detected \o FeatureOf(order[k], Len(detected), logits, flags, m, seed),
                      logits, flags, m, seed)

\* detected_features of one run
Assemble(props, logits, flags, m, seed) ==
    AssembleFrom(SetIter(props), 1, <<>>, logits, flags, m, seed)

\* the body of the 200 response
Result(n, detected, seed) ==
    [ analysis_id       |-> RandomUniform(seed, 3 * Len(detected), 0, 9),
      status            |-> "completed",
      features          |-> detected,
      total_faces       |-> n,
      detected_features |-> Len(detected),
      feature_types     |-> {detected[i].type : i \in 1 .. Len(detected)} ]

----------------------------------------------------------------------------
(* Inputs *)

LogitRow(peak, hi, lo) == [c \in Classes |-> IF c = peak THEN hi ELSE lo]

\* what the three heads give for one face: its class logits and its bottom logit
FaceKinds ==
    << [seg |-> LogitRow(1, 3, -2),   bottom |-> -1],     \* a through_hole wall
       [seg |-> LogitRow(24, 3, -2),  bottom |-> -1],     \* stock
       [seg |-> LogitRow(14, -1, -3), bottom |-> 1] >>    \* a weak rectangular_pocket floor

\* the outputs for the faces of one part: face f is of kind first + stride * f
FaceOutputs(n) ==
    { [f \in Faces(n) |-> FaceKinds[((first + stride * f) % 3) + 1]] :
        first \in 0 .. 2, stride \in 0 .. 2 }

\* the logits of the instance head for one pair
PairLogits == {-1, 1}

\* seeds of the np.random stream of one run (mesh, dimensions, analysis id)
Seeds == {1, 2}

None == <<>>

----------------------------------------------------------------------------
(* The state before a request *)

Init ==
    /\ phase = "idle"
    /\ num_faces = 0
    /\ mesh = None
    /\ face_logits = None
    /\ inst_out = None
    /\ bottom_logits = None
    /\ adj = None
    /\ used_flags = None
    /\ row_idx = 0
    /\ proposals = EmptySet
    /\ result = None
    /\ replay = None
    /\ request = None
    /\ model = None
    /\ raised = None
    /\ status_code = 0
    /\ aag_features = None

----------------------------------------------------------------------------
(* The clustering loop on its own, row by row, on an arbitrary 0/1 matrix *)

InitCluster ==
    /\ phase = "cluster"
    /\ num_faces \in 1 .. MaxClusterFaces
    /\ adj \in [Faces(num_faces) -> [Faces(num_faces) -> {0, 1}]]
    /\ used_flags = [f \in Faces(num_faces) |-> FALSE]
    /\ row_idx = 0
    /\ proposals = EmptySet
    /\ mesh = None
    /\ face_logits = None
    /\ inst_out = None
    /\ bottom_logits = None
    /\ result = None
    /\ replay = None
    /\ request = None
    /\ model = None
    /\ raised = None
    /\ status_code = 0
    /\ aag_features = None

ClusterStep ==
    /\ phase = "cluster"
    /\ row_idx < num_faces
    /\ LET s == ClusterRow(adj, num_faces, row_idx, used_flags, proposals)
       IN  /\ used_flags' = s.used
           /\ proposals' = s.proposals
    /\ row_idx' = row_idx + 1
    /\ UNCHANGED <<phase, num_faces, mesh, face_logits, inst_out, bottom_logits,
                   adj, result, replay, request, model, raised, status_code,
                   aag_features>>

NextCluster == ClusterStep

SpecCluster == InitCluster /\ [][NextCluster]_vars

----------------------------------------------------------------------------
(* extract_aag_features: node rows, and edges read off the adjacency matrix *)

\* largest face count of the meshes handed to the extractor on its own
MaxExtractFaces == 3

\* 1e-8, the guard of the normalisation, is 1 / EpsilonInverse
EpsilonInverse == 100000000

RatAdd(p, q) ==
    IF p[2] = q[2] THEN Rat(p[1] + q[1], p[2])
    ELSE Rat(p[1] * q[2] + q[1] * p[2], p[2] * q[2])

RatSub(p, q) == RatAdd(p, <<-q[1], q[2]>>)

RatAbs(p) == <<Abs(p[1]), p[2]>>

\* min(a, b) and max(a, b) of Python: the first argument unless the second beats it
RatMin(p, q) == IF RatLess(q, p) THEN q ELSE p

RatMax(p, q) == IF RatLess(p, q) THEN q ELSE p

\* np.array(list): positions 0 .. len - 1
NpArray(list) == [i \in 0 .. (Len(list) - 1) |-> list[i + 1]]

\* arr[idx] of numpy: a negative index counts from the end; "IndexError" outside
InRange(arr, idx) == -ArrayLen(arr) <= idx /\ idx < ArrayLen(arr)

NpIndex(arr, idx) == IF idx < 0 THEN arr[ArrayLen(arr) + idx] ELSE arr[idx]

\* np.eye(n)
NpEye(n) == [i \in Faces(n) |-> [j \in Faces(n) |-> IF i = j THEN 1 ELSE 0]]

\* np.cross(edge1, edge2)
NpCross(a, b) ==
    << a[2] * b[3] - a[3] * b[2], a[3] * b[1] - a[1] * b[3], a[1] * b[2] - a[2] * b[1] >>

\* np.linalg.norm of an integer vector whose length is a whole number
NpNorm(v) ==
    CHOOSE r \in 0 .. (Abs(v[1]) + Abs(v[2]) + Abs(v[3])) :
        r * r = v[1] * v[1] + v[2] * v[2] + v[3] * v[3]

\* the 10 attributes of one face from its first three vertices; attribute k of
\* the code is position k + 1 here
FaceAttr(v1, v2, v3) ==
    LET edge1  == <<v2[1] - v1[1], v2[2] - v1[2], v2[3] - v1[3]>>
        edge2  == <<v3[1] - v1[1], v3[2] - v1[2], v3[3] - v1[3]>>
        cross  == NpCross(edge1, edge2)
        len    == NpNorm(cross)
        normal == [c \in 1 .. 3 |->
                     Rat(cross[c] * EpsilonInverse, len * EpsilonInverse + 1)]
        center == [c \in 1 .. 3 |-> Rat(v1[c] + v2[c] + v3[c], 3)]
    IN  << Rat(len, 2),
           normal[1], normal[2], normal[3],
           center[1], center[2], center[3],
           <<0, 1>>, <<0, 1>>, <<1, 1>> >>

\* the fallback loop over mesh['faces']: a face of fewer than 3 indices adds no
\* row and raises nothing; only face[0], face[1], face[2] are looked up
RECURSIVE FallbackFeatures(_, _, _, _)
FallbackFeatures(vertices, faces, k, features) ==
    IF k >= ArrayLen(faces) THEN [raised |-> "", features |-> features]
    ELSE LET face == faces[k]
         IN  IF Len(face) >= 3
             THEN IF \E t \in 1 .. 3 : ~InRange(vertices, face[t])
                  THEN [raised |-> "IndexError", features |-> features]
                  ELSE FallbackFeatures(vertices, faces, k + 1,
                           Append(features,
                                  FaceAttr(NpIndex(vertices, face[1]),
                                           NpIndex(vertices, face[2]),
                                           NpIndex(vertices, face[3]))))
             ELSE FallbackFeatures(vertices, faces, k + 1, features)

\* node_features of a mesh: the rows it brings, else the fallback rows
NodeFeatures(m) ==
    IF "face_attributes" \in DOMAIN m
    THEN [raised |-> "", node_features |-> m.face_attributes]
    ELSE LET fb == FallbackFeatures(m.vertices, m.faces, 0, <<>>)
         IN  [raised |-> fb.raised, node_features |-> NpArray(fb.features)]

\* the 12 attributes of the edge between two rows
EdgeFeat(face_i, face_j) ==
    << RatAbs(RatSub(face_i[2], face_j[2])),
       RatAbs(RatSub(face_i[3], face_j[3])),
       RatAbs(RatSub(face_i[4], face_j[4])),
       RatAbs(RatSub(face_i[5], face_j[5])),
       RatAbs(RatSub(face_i[6], face_j[6])),
       RatAbs(RatSub(face_i[7], face_j[7])),
       RatMin(face_i[1], face_j[1]),
       RatMax(face_i[1], face_j[1]),
       RatAdd(face_i[1], face_j[1]),
       <<0, 1>>, <<1, 1>>, <<1, 1>> >>

\* the cells (i, j) of an n x n matrix in the order the two loops visit them
Cells(n) == [k \in 1 .. (n * n) |-> <<(k - 1) \div n, (k - 1) % n>>]

\* for i in range(num_faces): for j in range(i + 1, num_faces):
\*     if adjacency_matrix[i, j] > 0: edge_indices.append([i, j])
EdgeIndices(adjacency_matrix, n) ==
    SelectSeq(Cells(n), LAMBDA c : c[1] < c[2] /\ adjacency_matrix[c[1]][c[2]] > 0)

\* edge_features: one entry per entry of edge_indices, appended with it
EdgeFeatures(node_features, edge_indices) ==
    [k \in 1 .. Len(edge_indices) |->
        EdgeFeat(node_features[edge_indices[k][1]], node_features[edge_indices[k][2]])]

extract_aag_features(m) ==
    LET nf == NodeFeatures(m)
    IN  IF nf.raised # "" THEN [raised |-> nf.raised]
        ELSE LET node_features    == nf.node_features
                 adjacency_matrix ==
                     IF "adjacency_matrix" \in DOMAIN m THEN m.adjacency_matrix
                     ELSE NpEye(ArrayLen(node_features))
                 edge_indices == EdgeIndices(adjacency_matrix, ArrayLen(node_features))
             IN  [ raised           |-> "",
                   node_features    |-> node_features,
                   edge_features    |-> NpArray(EdgeFeatures(node_features, edge_indices)),
                   edge_indices     |-> NpArray(edge_indices),
                   adjacency_matrix |-> adjacency_matrix ]

\* four vertices; the triangles used below have sides of whole length
FallbackVertices == NpArray(<< <<0, 0, 0>>, <<1, 0, 0>>, <<0, 2, 0>>, <<0, 0, 2>> >>)

\* faces of a mesh without attributes: two sound triangles, one with too few
\* indices, one pointing past the vertices, one whose fourth index does, one
\* with a negative index
FaceShapes ==
    { <<0, 1, 2>>, <<0, 1, 3>>, <<0, 1>>, <<0, 1, 7>>, <<0, 1, 2, 9>>, <<0, 1, -1>> }

\* every entry marked
AllMarked(n) == [i \in Faces(n) |-> [j \in Faces(n) |-> 1]]

\* the meshes of n faces handed to the extractor
ExtractInputs(n) ==
    { [face_attributes |-> AttributeRows(n, seed), adjacency_matrix |-> a] :
         seed \in Seeds, a \in [Faces(n) -> [Faces(n) -> {0, 1}]] }
    \cup { [face_attributes |-> AttributeRows(n, seed)] : seed \in Seeds }
    \cup { [vertices |-> FallbackVertices, faces |-> f] : f \in [Faces(n) -> FaceShapes] }
    \cup { [vertices |-> FallbackVertices, faces |-> f, adjacency_matrix |-> AllMarked(n)] :
              f \in [Faces(n) -> FaceShapes] }

----------------------------------------------------------------------------
(* load_trained_model and AAGNetSegmentor *)

\* the widths load_trained_model passes to the constructor
NodeAttrDim == 10

NodeAttrEmb == 64

NodeGridDim == 7

NodeGridEmb == 64

\* some of the keys of the model's own state_dict()
ParamNames == {"node_attr_emb.weight", "node_grid_emb.weight", "seg_head.3.weight"}

\* a weight mapping with the model's keys, all values tag; one with foreign keys
Weights(tag) == [k \in ParamNames |-> tag]

ForeignWeights == [k \in {"encoder.weight"} |-> 9]

\* AAGNetSegmentor(...): feature_dim is what the attention blocks, layer norms,
\* MLPs and heads are built for
AAGNetSegmentor(node_attr_dim, node_attr_emb, node_grid_dim, node_grid_emb) ==
    [ node_attr_dim     |-> node_attr_dim,
      node_attr_emb     |-> node_attr_emb,
      has_node_grid_emb |-> node_grid_dim > 0,
      node_grid_dim     |-> node_grid_dim,
      node_grid_emb     |-> node_grid_emb,
      feature_dim       |-> node_attr_emb + (IF node_grid_dim > 0 THEN node_grid_emb ELSE 0),
      weights           |-> None ]

\* a plausible slip: "state_dict" looked up before "model_state_dict"
ResolveStateDictSwapped(checkpoint) ==
    IF checkpoint.is_dict
    THEN IF "state_dict" \in DOMAIN checkpoint.items
         THEN [is_dict |-> TRUE, items |-> checkpoint.items["state_dict"]]
         ELSE IF "model_state_dict" \in DOMAIN checkpoint.items
         THEN [is_dict |-> TRUE, items |-> checkpoint.items["model_state_dict"]]
         ELSE checkpoint
    ELSE checkpoint

\* the object handed to model.load_state_dict
ResolveStateDict(checkpoint) ==
    IF checkpoint.is_dict
    THEN IF "model_state_dict" \in DOMAIN checkpoint.items
         THEN [is_dict |-> TRUE, items |-> checkpoint.items["model_state_dict"]]
         ELSE IF "state_dict" \in DOMAIN checkpoint.items
         THEN [is_dict |-> TRUE, items |-> checkpoint.items["state_dict"]]
         ELSE checkpoint
    ELSE checkpoint

\* model.load_state_dict(state_dict), strict: the keys must be the model's
load_state_dict(net, state_dict) ==
    IF ~state_dict.is_dict THEN [raised |-> "TypeError", model |-> None]
    ELSE IF DOMAIN state_dict.items # ParamNames
    THEN [raised |-> "RuntimeError", model |-> None]
    ELSE [raised |-> "", model |-> [net EXCEPT !.weights = state_dict.items]]

\* a str is the sequence of its characters
EndsWith(str, suffix) ==
    /\ Len(str) >= Len(suffix)
    /\ SubSeq(str, Len(str) - Len(suffix) + 1, Len(str)) = suffix

Contains(str, part) ==
    \E k \in 1 .. (Len(str) - Len(part) + 1) : SubSeq(str, k, k + Len(part) - 1) = part

\* filename.endswith('.pth') and 'weight' in filename
IsPthWeightFile(filename) ==
    /\ EndsWith(filename, <<".", "p", "t", "h">>)
    /\ Contains(filename, <<"w", "e", "i", "g", "h", "t">>)

\* the first entry of model_files whose name passes the test; 0 when none does
RECURSIVE FindModelFile(_, _)
FindModelFile(model_files, k) ==
    IF k > Len(model_files) THEN 0
    ELSE IF IsPthWeightFile(model_files[k].name) THEN k
    ELSE FindModelFile(model_files, k + 1)

load_trained_model(model_files) ==
    LET k == FindModelFile(model_files, 1)
    IN  IF k = 0 THEN [raised |-> "ValueError", model |-> None]
        ELSE IF model_files[k].data.kind # "pickle"
        THEN [raised |-> "UnpicklingError", model |-> None]
        ELSE load_state_dict(
                 AAGNetSegmentor(NodeAttrDim, NodeAttrEmb, NodeGridDim, NodeGridEmb),
                 ResolveStateDict(model_files[k].data.checkpoint))

----------------------------------------------------------------------------
(* forward *)

\* shape of torch.FloatTensor(node_features): no rows gives a 1-D tensor
TensorShape(node_features) ==
    IF ArrayLen(node_features) = 0 THEN <<0>>
    ELSE <<ArrayLen(node_features), Len(node_features[0])>>

\* width of x after the node embeddings (step 1 of forward)
EmbeddingWidth(net, shape) ==
    IF net.has_node_grid_emb /\ shape[2] > net.node_attr_dim
    THEN net.node_attr_emb + net.node_grid_emb
    ELSE net.node_attr_emb

\* the three heads on n faces; the values are a function of the weights
Heads(net, n) ==
    LET t == net.weights["seg_head.3.weight"]
    IN  [ seg        |-> [f \in Faces(n) |-> FaceKinds[((t + f) % 3) + 1].seg],
          bottom     |-> [f \in Faces(n) |-> FaceKinds[((t + f) % 3) + 1].bottom],
          pair_logit |-> [pr \in FacePairs(n) |->
                             IF (pr[1] + pr[2] + t) % 2 = 0 THEN 1 ELSE -1] ]

\* model(mock_batch): x[:, :node_attr_dim] needs two dimensions, the linear
\* layers need their input widths, the attention blocks need feature_dim
Forward(net, shape) ==
    IF Len(shape) < 2 THEN [raised |-> "IndexError", width |-> 0]
    ELSE IF shape[2] < net.node_attr_dim
    THEN [raised |-> "RuntimeError", width |-> 0]
    ELSE IF net.has_node_grid_emb /\ shape[2] > net.node_attr_dim
              /\ shape[2] - net.node_attr_dim # net.node_grid_dim
    THEN [raised |-> "RuntimeError", width |-> net.node_attr_emb]
    ELSE IF EmbeddingWidth(net, shape) # net.feature_dim
    THEN [raised |-> "AssertionError", width |-> EmbeddingWidth(net, shape)]
    ELSE [raised |-> "", width |-> EmbeddingWidth(net, shape)]

----------------------------------------------------------------------------
(* parse_step_to_mesh: base64.b64decode(step_data).decode('utf-8'), then the
   simulated mesh. A str is the sequence of its code points. *)

Str(chars) == [type |-> "str", chars |-> chars]

\* a value that is not a str: only its type matters
NotStr(type) == [type |-> type]

\* s.encode('ascii') succeeds
IsAscii(chars) == \A k \in 1 .. Len(chars) : chars[k] < 128

\* the value of a character of the base64 alphabet (A-Z a-z 0-9 + /); 64 for
\* any other character
Base64Index(ch) ==
    IF ch \in 65 .. 90 THEN ch - 65
    ELSE IF ch \in 97 .. 122 THEN ch - 71
    ELSE IF ch \in 48 .. 57 THEN ch + 4
    ELSE IF ch = 43 THEN 62
    ELSE IF ch = 47 THEN 63
    ELSE 64

\* binascii.a2b_base64(data), not strict: characters outside the alphabet are
\* skipped, a complete padding ends the input, an incomplete quad at the end
\* of the input raises
RECURSIVE a2b_base64(_, _, _, _, _, _)
a2b_base64(data, k, quad_pos, leftchar, pads, bytes) ==
    IF k > Len(data)
    THEN [raised |-> IF quad_pos # 0 THEN "binascii.Error" ELSE "", bytes |-> bytes]
    ELSE IF data[k] = 61
    THEN IF quad_pos >= 2 /\ quad_pos + pads + 1 >= 4
         THEN [raised |-> "", bytes |-> bytes]
         ELSE a2b_base64(data, k + 1, quad_pos, leftchar,
                         IF quad_pos >= 2 THEN pads + 1 ELSE pads, bytes)
    ELSE IF Base64Index(data[k]) >= 64
    THEN a2b_base64(data, k + 1, quad_pos, leftchar, pads, bytes)
    ELSE IF quad_pos = 0
    THEN a2b_base64(data, k + 1, 1, Base64Index(data[k]), 0, bytes)
    ELSE IF quad_pos = 1
    THEN a2b_base64(data, k + 1, 2, Base64Index(data[k]) % 16, 0,
                    Append(bytes, leftchar * 4 + (Base64Index(data[k]) \div 16)))
    ELSE IF quad_pos = 2
    THEN a2b_base64(data, k + 1, 3, Base64Index(data[k]) % 4, 0,
                    Append(bytes, leftchar * 16 + (Base64Index(data[k]) \div 4)))
    ELSE a2b_base64(data, k + 1, 0, 0, 0,
                    Append(bytes, leftchar * 64 + Base64Index(data[k])))

\* base64.b64decode(s): s must be bytes-like or a str, a str must be ASCII
b64decode(s) ==
    IF s.type # "str" THEN [raised |-> "TypeError", bytes |-> <<>>]
    ELSE IF ~IsAscii(s.chars) THEN [raised |-> "ValueError", bytes |-> <<>>]
    ELSE a2b_base64(s.chars, 1, 0, 0, 0, <<>>)

\* byte k of bytes is there and lies in lo .. hi
InBytes(bytes, k, lo, hi) == k <= Len(bytes) /\ bytes[k] \in lo .. hi

\* bytes[k:] is well-formed UTF-8 (no overlong form, no surrogate, nothing
\* above U+10FFFF)
RECURSIVE IsUtf8(_, _)
IsUtf8(bytes, k) ==
    IF k > Len(bytes) THEN TRUE
    ELSE IF bytes[k] < 128 THEN IsUtf8(bytes, k + 1)
    ELSE IF bytes[k] \in 194 .. 223
    THEN InBytes(bytes, k + 1, 128, 191) /\ IsUtf8(bytes, k + 2)
    ELSE IF bytes[k] \in 224 .. 239
    THEN /\ InBytes(bytes, k + 1,
                    IF bytes[k] = 224 THEN 160 ELSE 128,
                    IF bytes[k] = 237 THEN 159 ELSE 191)
         /\ InBytes(bytes, k + 2, 128, 191)
         /\ IsUtf8(bytes, k + 3)
    ELSE IF bytes[k] \in 240 .. 244
    THEN /\ InBytes(bytes, k + 1,
                    IF bytes[k] = 240 THEN 144 ELSE 128,
                    IF bytes[k] = 244 THEN 143 ELSE 191)
         /\ InBytes(bytes, k + 2, 128, 191)
         /\ InBytes(bytes, k + 3, 128, 191)
         /\ IsUtf8(bytes, k + 4)
    ELSE FALSE

\* the function once b64decode has returned (or raised): .decode('utf-8'),
\* then the simulation loop; the decoded text is not read
ParseDecoded(decoded, seed) ==
    IF decoded.raised # "" THEN [raised |-> decoded.raised, mesh |-> None]
    ELSE IF ~IsUtf8(decoded.bytes, 1) THEN [raised |-> "UnicodeDecodeError", mesh |-> None]
    ELSE [raised |-> "", mesh |-> SimulatedMesh(SimulatedFaces, seed)]

parse_step_to_mesh(step_data, seed) == ParseDecoded(b64decode(step_data), seed)

----------------------------------------------------------------------------
(* handler(request), from the request body to the response *)

\* the locals of a run that has not started
Blank ==
    [ raised        |-> [step |-> "", type |-> ""],
      model         |-> None,
      mesh          |-> None,
      aag_features  |-> None,
      num_faces     |-> 0,
      face_logits   |-> None,
      inst_out      |-> None,
      bottom_logits |-> None,
      adj           |-> None,
      used_flags    |-> None,
      row_idx       |-> 0,
      proposals     |-> EmptySet,
      body          |-> None,
      status_code   |-> 0 ]

\* a plausible slip: the error response still carries a feature list
ExceptKeepingFeatures(o, step, type) ==
    [o EXCEPT !.raised = [step |-> step, type |-> type],
              !.body = [error |-> type, status |-> "error", features |-> <<>>],
              !.status_code = 500]

\* except Exception as e: the response is {'error': str(e), 'status': 'error'}
Except(o, step, type) ==
    [o EXCEPT !.raised = [step |-> step, type |-> type],
              !.body = [error |-> type, status |-> "error"],
              !.status_code = 500]

\* from the three outputs of the model to the 200 response
Completed(o, net, m, n, seed) ==
    LET h     == Heads(net, n)
        inst  == InstMatrix(n, h.pair_logit)
        a     == AdjOf(n, inst)
        flags == BottomFlags(n, h.bottom)
        cl    == Cluster(a, n)
        det   == Assemble(cl.proposals, h.seg, flags, m, seed)
    IN  [o EXCEPT !.face_logits = h.seg,
                  !.inst_out = inst,
                  !.bottom_logits = flags,
                  !.adj = a,
                  !.used_flags = cl.used,
                  !.row_idx = n,
                  !.proposals = cl.proposals,
                  !.body = Result(n, det, seed),
                  !.status_code = 200]

\* the handler once the model has answered (or raised)
AfterForward(o, seed, m, n, fw) ==
    IF fw.raised # "" THEN Except(o, "forward", fw.raised)
    ELSE Completed(o, o.model, m, n, seed)

\* ... once the features are extracted (or the extraction raised)
AfterExtract(o, seed, m, aag) ==
    IF aag.raised # "" THEN Except(o, "extract_aag_features", aag.raised)
    ELSE AfterForward([o EXCEPT !.num_faces = ArrayLen(aag.node_features),
                                !.aag_features = aag],
                      seed, m, ArrayLen(aag.node_features),
                      Forward(o.model, TensorShape(aag.node_features)))

\* ... once parse_step_to_mesh has returned (or raised)
AfterParse(o, seed, parsed) ==
    IF parsed.raised # "" THEN Except(o, "parse_step_to_mesh", parsed.raised)
    ELSE AfterExtract([o EXCEPT !.mesh = parsed.mesh], seed, parsed.mesh,
                      extract_aag_features(parsed.mesh))

\* ... once load_trained_model has returned (or raised)
AfterLoad(req, ld) ==
    IF ld.raised # "" THEN Except(Blank, "load_trained_model", ld.raised)
    ELSE AfterParse([Blank EXCEPT !.model = ld.model], req.seed,
                    parse_step_to_mesh(req.body.step_data, req.seed))

\* a download that returns no data leaves no entry in model_files
Downloaded(f) == f.data.kind # "empty"

handler(req) ==
    IF req.body.json = "None" THEN Except(Blank, "json.loads", "TypeError")
    ELSE IF req.body.json = "invalid" THEN Except(Blank, "json.loads", "JSONDecodeError")
    ELSE IF req.body.json # "object" THEN Except(Blank, "request_data.get", "AttributeError")
    ELSE IF req.storage.data_is_none THEN Except(Blank, "storage.list", "Exception")
    ELSE AfterLoad(req, load_trained_model(SelectSeq(req.storage.files, Downloaded)))

\* values of step_data that are str, as code points
StepStrings ==
    {
      <<>>,                                    \* '': decodes to the empty text
      <<97, 71, 107, 61>>,                     \* 'aGk=': decodes to 'hi'
      <<97, 71, 32, 107, 61, 10>>,             \* 'aG k=\n': the same with characters outside the alphabet
      <<119, 54, 107, 61>>,                    \* 'w6k=': decodes to the two bytes of U+00E9
      <<97, 71, 107, 61, 33, 33, 33>>,         \* 'aGk=!!!': data after the padding is not read
      <<233>>,                                 \* '\xe9': not ASCII
      <<99, 97, 102, 233>>,                    \* 'caf\xe9': not ASCII
      <<97>>,                                  \* 'a': one character left over
      <<97, 71, 107>>,                         \* 'aGk': padding missing
      <<97, 71, 61>>,                          \* 'aG=': padding too short
      <<47, 119, 61, 61>>,                     \* '/w==': decodes to the byte 0xFF
      <<119, 50, 107, 61>>                     \* 'w2k=': decodes to a lead byte without its continuation
    }

\* request_data.get('step_data'): None when the key is missing, or the value
\* of the JSON member, of whatever JSON type
StepDatas ==
    { NotStr(t) : t \in {"NoneType", "int", "list"} }
    \cup { Str(chars) : chars \in StepStrings }

\* request.body: None; text that is not JSON; JSON that is not an object; an
\* object, with its step_data
Bodies ==
    { [json |-> j, step_data |-> NotStr("NoneType")] : j \in {"None", "invalid", "array"} }
    \cup { [json |-> "object", step_data |-> d] : d \in StepDatas }

\* the items of a checkpoint dict: an optional "model_state_dict", an optional
\* "state_dict", each with the model's keys or with foreign ones, and
\* optionally the model's keys at top level
CheckpointItems(msd, sd, flat) ==
    [ k \in (IF msd = "" THEN {} ELSE {"model_state_dict"})
            \cup (IF sd = "" THEN {} ELSE {"state_dict"})
            \cup (IF flat THEN ParamNames ELSE {}) |->
        IF k = "model_state_dict" THEN (IF msd = "own" THEN Weights(1) ELSE ForeignWeights)
        ELSE IF k = "state_dict" THEN (IF sd = "own" THEN Weights(2) ELSE ForeignWeights)
        ELSE 3 ]

\* what torch.load returns: a dict, or some other pickled object
Checkpoints ==
    { [is_dict |-> TRUE, items |-> CheckpointItems(msd, sd, flat)] :
         msd \in {"", "own", "foreign"}, sd \in {"", "own", "foreign"}, flat \in BOOLEAN }
    \cup { [is_dict |-> FALSE, items |-> <<>>] }

\* names of files in the bucket
ReadmeMd ==
    <<"R", "E", "A", "D", "M", "E", ".", "m", "d">>

WeightsJson ==
    <<"w", "e", "i", "g", "h", "t", "s", ".", "j", "s", "o", "n">>

ModelPth ==
    <<"m", "o", "d", "e", "l", ".", "p", "t", "h">>

AagnetWeightsPth ==
    <<"a", "a", "g", "n", "e", "t", "_", "w", "e", "i", "g", "h", "t", "s", ".", "p", "t", "h">>

OldWeightsPth ==
    <<"o", "l", "d", "_", "w", "e", "i", "g", "h", "t", "s", ".", "p", "t", "h">>

File(name, data) == [name |-> name, data |-> data]

Pickle(checkpoint) == [kind |-> "pickle", checkpoint |-> checkpoint]

\* the listing of the 'models' bucket, with the data each download returns
Storages ==
    { [data_is_none |-> TRUE, files |-> <<>>] }
    \cup { [data_is_none |-> FALSE, files |-> fs] : fs \in
            { <<>>,
              << File(ReadmeMd, [kind |-> "text"]) >>,
              << File(WeightsJson, [kind |-> "text"]) >>,
              << File(ModelPth, Pickle([is_dict |-> TRUE, items |-> Weights(3)])) >>,
              << File(AagnetWeightsPth, [kind |-> "empty"]) >>,
              << File(AagnetWeightsPth, [kind |-> "corrupt"]) >>,
              << File(OldWeightsPth, Pickle([is_dict |-> TRUE, items |-> Weights(2)])),
                 File(AagnetWeightsPth, Pickle([is_dict |-> TRUE, items |-> Weights(3)])) >> }
            \cup { << File(AagnetWeightsPth, Pickle(c)) >> : c \in Checkpoints }
            \cup { << File(ReadmeMd, [kind |-> "text"]),
                      File(AagnetWeightsPth, Pickle(c)) >> : c \in Checkpoints } }

\* one call of the handler, from the request to the response
Request ==
    /\ phase = "idle"
    /\ \E body \in Bodies, storage \in Storages, seed \in Seeds :
       \E o \in {handler([body |-> body, storage |-> storage, seed |-> seed])} :
          /\ request' = [body |-> body, storage |-> storage, seed |-> seed]
          /\ model' = o.model
          /\ raised' = o.raised
          /\ status_code' = o.status_code
          /\ mesh' = o.mesh
          /\ aag_features' = o.aag_features
          /\ num_faces' = o.num_faces
          /\ face_logits' = o.face_logits
          /\ inst_out' = o.inst_out
          /\ bottom_logits' = o.bottom_logits
          /\ adj' = o.adj
          /\ used_flags' = o.used_flags
          /\ row_idx' = o.row_idx
          /\ proposals' = o.proposals
          /\ result' = o.body
    /\ phase' = "responded"
    /\ UNCHANGED replay

Next == Request

Spec == Init /\ [][Next]_vars

----------------------------------------------------------------------------
(* The handler from the extraction on, for a mesh of any size *)

\* the network load_trained_model returns for a checkpoint that loads
LoadedModel ==
    load_state_dict(AAGNetSegmentor(NodeAttrDim, NodeAttrEmb, NodeGridDim, NodeGridEmb),
                    [is_dict |-> TRUE, items |-> Weights(1)]).model

InitExtract ==
    /\ phase = "extract"
    /\ num_faces \in 0 .. MaxExtractFaces
    /\ mesh \in ExtractInputs(num_faces)
    /\ model = LoadedModel
    /\ aag_features = None
    /\ result = None
    /\ face_logits = None
    /\ inst_out = None
    /\ bottom_logits = None
    /\ adj = None
    /\ used_flags = None
    /\ row_idx = 0
    /\ proposals = EmptySet
    /\ replay = None
    /\ request = None
    /\ raised = None
    /\ status_code = 0

\* aag_features = extract_aag_features(mesh)
Extract ==
    /\ phase = "extract"
    /\ aag_features' = extract_aag_features(mesh)
    /\ phase' = "extracted"
    /\ UNCHANGED <<num_faces, mesh, face_logits, inst_out, bottom_logits, adj,
                   used_flags, row_idx, proposals, result, replay,
                   request, model, raised, status_code>>

\* the rest of the handler: the tensor, the model call, the response
Respond ==
    /\ phase = "extracted"
    /\ \E o \in {AfterExtract([Blank EXCEPT !.model = model, !.mesh = mesh], 1, mesh,
                              aag_features)} :
          /\ raised' = o.raised
          /\ status_code' = o.status_code
          /\ result' = o.body
          /\ face_logits' = o.face_logits
          /\ inst_out' = o.inst_out
          /\ bottom_logits' = o.bottom_logits
          /\ adj' = o.adj
          /\ used_flags' = o.used_flags
          /\ row_idx' = o.row_idx
          /\ proposals' = o.proposals
    /\ phase' = "responded"
    /\ UNCHANGED <<num_faces, mesh, aag_features, replay, request, model>>

NextExtract == Extract \/ Respond

SpecExtract == InitExtract /\ [][NextExtract]_vars

----------------------------------------------------------------------------
(* The handler from the outputs of the three heads on. With the network as
   load_trained_model configures it the encoder raises before this point; the
   part below is the code that a returning model call would run, for any
   outputs of the heads and any number of faces. *)

InitHeads ==
    /\ phase = "heads"
    /\ model = LoadedModel
    /\ num_faces = 0
    /\ mesh = None
    /\ aag_features = None
    /\ face_logits = None
    /\ inst_out = None
    /\ bottom_logits = None
    /\ adj = None
    /\ used_flags = None
    /\ row_idx = 0
    /\ proposals = EmptySet
    /\ result = None
    /\ replay = None
    /\ request = None
    /\ raised = None
    /\ status_code = 0

\* one call of the handler from `outputs = model(mock_batch)` on: the three
\* outputs thresholded, the faces clustered, the features assembled, the body
\* of the response built. seed is the np.random stream of the process the call
\* runs in. The mesh and the clustering are computed once and then used.
HeadsRun(n, seg, inst, bottom_out, seed) ==
    LET a     == AdjOf(n, inst)
        flags == BottomFlags(n, bottom_out)
    IN  CHOOSE run \in
            { [ num_faces     |-> n,
                mesh          |-> m,
                face_logits   |-> seg,
                inst_out      |-> inst,
                bottom_logits |-> flags,
                adj           |-> a,
                used_flags    |-> cl.used,
                proposals     |-> cl.proposals,
                result        |-> Result(n, Assemble(cl.proposals, seg, flags, m, seed), seed) ] :
              m \in {SimulatedMesh(n, seed)}, cl \in {Cluster(a, n)} } : TRUE

\* forward from the heads on, thresholding, clustering, assembly, response
PostInference ==
    /\ phase = "heads"
    /\ \E n \in 1 .. MaxFaces, seed \in Seeds :
       \E out \in FaceOutputs(n), pair_logit \in [FacePairs(n) -> PairLogits] :
       \E run \in { HeadsRun(n, [f \in Faces(n) |-> out[f].seg], InstMatrix(n, pair_logit),
                             [f \in Faces(n) |-> out[f].bottom], seed) } :
              /\ num_faces' = n
              /\ mesh' = run.mesh
              /\ aag_features' = extract_aag_features(run.mesh)
              /\ face_logits' = run.face_logits
              /\ inst_out' = run.inst_out
              /\ bottom_logits' = run.bottom_logits
              /\ adj' = run.adj
              /\ used_flags' = run.used_flags
              /\ row_idx' = n
              /\ proposals' = run.proposals
              /\ result' = run.result
    /\ phase' = "done"
    /\ status_code' = 200
    /\ raised' = [step |-> "", type |-> ""]
    /\ UNCHANGED <<replay, request, model>>

\* how the outputs of the heads for a second request differ from those for
\* the first: not at all, or in one output of one head. For parts of the
\* largest size only the same outputs are explored: the pairs of runs are the
\* bulk of the states.
Changes(n) == IF n < MaxFaces THEN {"none", "seg", "inst", "bottom"} ELSE {"none"}

\* the class logits with those of the last face moved one class down
SegChanged(n, seg) ==
    [seg EXCEPT ![n - 1] = [c \in Classes |-> seg[n - 1][(c + 1) % NumClasses]]]

\* the pair logits with the sign of those of the pair (0, 1) changed
InstChanged(n, inst) ==
    IF n < 2 THEN inst
    ELSE [inst EXCEPT ![0][1] = 0 - inst[0][1], ![1][0] = 0 - inst[1][0]]

\* bottom logits that threshold to the flags
BottomOut(n, flags) == [f \in Faces(n) |-> IF flags[f] THEN 1 ELSE -1]

\* the bottom logits with the sign of that of the last face changed
BottomChanged(n, bottom_out) == [bottom_out EXCEPT ![n - 1] = 0 - bottom_out[n - 1]]

\* a second request, served by another process: the same code from the
\* outputs of the heads on, with the random stream of that process and with
\* the outputs the heads give for that request
Replay ==
    /\ phase = "done"
    /\ \E seed \in Seeds, change \in Changes(num_faces) :
          replay' = HeadsRun(num_faces,
                             IF change = "seg" THEN SegChanged(num_faces, face_logits)
                             ELSE face_logits,
                             IF change = "inst" THEN InstChanged(num_faces, inst_out) ELSE inst_out,
                             IF change = "bottom"
                             THEN BottomChanged(num_faces, BottomOut(num_faces, bottom_logits))
                             ELSE BottomOut(num_faces, bottom_logits),
                             seed)
    /\ phase' = "replayed"
    /\ UNCHANGED <<num_faces, mesh, aag_features, face_logits, inst_out,
                   bottom_logits, adj, used_flags, row_idx, proposals, result,
                   request, model, raised, status_code>>

NextHeads == PostInference \/ Replay

SpecHeads == InitHeads /\ [][NextHeads]_vars

----------------------------------------------------------------------------
(* Vocabulary of the properties *)

Handled == phase \in {"done", "replayed"}

Groups == SetMembers(proposals)

SeqToSet(q) == {q[i] : i \in 1 .. Len(q)}

\* the columns row r marks
TrueCols(r) == {c \in Faces(num_faces) : adj[r][c] = 1}

\* the faces already used when the scan reaches row r
RECURSIVE UsedWhenReached(_)
UsedWhenReached(r) ==
    IF r = 0 THEN {}
    ELSE LET u == UsedWhenReached(r - 1)
         IN  IF (r - 1) \notin u /\ TrueCols(r - 1) # {}
             THEN u \cup TrueCols(r - 1)
             ELSE u

\* the rows below `upto` that the scan does not skip
SeedRows(upto) == {r \in 0 .. (upto - 1) : r \notin UsedWhenReached(r) /\ TrueCols(r) # {}}

\* the groups the greedy row scan has emitted once rows 0 .. upto-1 are done
GreedyRowScan(upto) == {TrueCols(r) \ UsedWhenReached(r) : r \in SeedRows(upto)} \ {{}}

\* adj = [[_,T,F],[T,_,F],[F,F,_]]
WorkedExample == [i \in 0 .. 2 |-> [j \in 0 .. 2 |-> IF {i, j} = {0, 1} THEN 1 ELSE 0]]

AllFalse == \A i, j \in Faces(num_faces) : adj[i][j] = 0

\* the summed logit of class c over the faces of a group
RECURSIVE ClassSum(_, _)
ClassSum(group, c) ==
    IF group = {} THEN 0
    ELSE LET f == CHOOSE x \in group : TRUE
         IN  face_logits[f][c] + ClassSum(group \ {f}, c)

\* the argmax of the summed logits (first maximal index) is class k
Wins(group, k) ==
    /\ \A c \in 0 .. 24 : ClassSum(group, c) <= ClassSum(group, k)
    /\ \A c \in 0 .. 24 : c < k => ClassSum(group, c) < ClassSum(group, k)

WinsBackground(group) == Wins(group, 24)

TypeIndex(name) == CHOOSE k \in 0 .. 24 : feat_names[k + 1] = name

FeaturesOf(res) == {res.features[i] : i \in 1 .. Len(res.features)}

----------------------------------------------------------------------------
(* Properties of the clustering loop *)

\* C1: for every 0/1 matrix adj (symmetric or not, any diagonal) the proposals
\* of the clustering loop are pairwise disjoint: no face id is a member of two
\* different proposals.
C1_ProposalsDisjoint ==
    \A p, q \in Groups : p # q => p \cap q = {}

C1_Witness ==
    /\ phase = "cluster" /\ row_idx = num_faces
    /\ Cardinality(Groups) >= 2
    /\ \E i, j \in Faces(num_faces) : adj[i][j] # adj[j][i]
    /\ \E i \in Faces(num_faces) : adj[i][i] = 1

\* C4: the proposals are those of the greedy row scan: rows in increasing
\* order, a row skipped when it is used or has no true entry, otherwise its
\* proposal is the set of its true columns not used before, which become used;
\* the seed row is a member only if adj[r][r] is true, and the worked example
\* yields exactly [{1}].
C4_GreedyRowScan ==
    phase = "cluster" =>
        /\ Groups = GreedyRowScan(row_idx)
        /\ {f \in Faces(num_faces) : used_flags[f]} = UsedWhenReached(row_idx)
        /\ (row_idx > 0 /\ (row_idx - 1) \in SeedRows(row_idx)) =>
              (used_flags[row_idx - 1] <=> adj[row_idx - 1][row_idx - 1] = 1)
        /\ (adj = WorkedExample /\ row_idx = 3 => Groups = {{1}})

C4_Witness ==
    /\ phase = "cluster" /\ adj = WorkedExample /\ row_idx = 3
    /\ Groups = {{1}}
    /\ ~used_flags[0] /\ used_flags[1] /\ ~used_flags[2]

\* C6: every proposal the clustering loop emits is non-empty; a row that is
\* unvisited and has true entries all of whose columns are used emits nothing.
C6_ProposalsNonEmpty ==
    /\ {} \notin Groups
    /\ phase = "cluster" =>
          Cardinality(Groups) =
              Cardinality({r \in SeedRows(row_idx) : ~(TrueCols(r) \subseteq UsedWhenReached(r))})

C6_Witness ==
    /\ phase = "cluster" /\ row_idx = num_faces
    /\ \E r \in SeedRows(num_faces) : TrueCols(r) \subseteq UsedWhenReached(r)
    /\ Cardinality(Groups) = 1

----------------------------------------------------------------------------
(* Properties of a handled request *)

\* C5: if adj is all-false, for any N, the clustering loop produces zero
\* proposals and the feature list of the response is empty.
C5_ZeroMatrixNoFeatures ==
    (Handled /\ AllFalse) =>
        /\ Groups = {}
        /\ result.status = "completed"
        /\ result.features = <<>>
        /\ result.detected_features = 0
        /\ (phase = "replayed" /\ replay.adj = adj => replay.result.features = <<>>)

C5_Witness ==
    /\ phase = "done" /\ num_faces >= 2 /\ AllFalse
    /\ result.features = <<>>

\* C2: a proposal whose summed per-class logits have their argmax at the
\* background class (index 24, 'stock') produces no entry of the feature list,
\* and every emitted feature's type is one of the 24 non-background names.
C2_BackgroundNeverEmitted ==
    Handled =>
        \A ft \in FeaturesOf(result) :
            /\ ft.type # "stock"
            /\ ft.type \in {feat_names[i] : i \in 1 .. 24}
            /\ \A p \in Groups : WinsBackground(p) => SeqToSet(ft.faces) # p

C2_Witness ==
    /\ phase = "done"
    /\ \E p \in Groups : WinsBackground(p)
    /\ Len(result.features) >= 1

\* C7: every proposal becomes one detected feature unless its winning class is
\* background: the number of features equals the number of proposals whose
\* summed-logit argmax is not the background class, and each such proposal's
\* face set is the 'faces' of exactly one feature.
C7_OneFeaturePerForegroundProposal ==
    Handled =>
        /\ Len(result.features) = Cardinality({p \in Groups : ~WinsBackground(p)})
        /\ result.detected_features = Len(result.features)
        /\ \A p \in Groups :
              ~WinsBackground(p) =>
                  Cardinality({i \in 1 .. Len(result.features) :
                                 SeqToSet(result.features[i].faces) = p}) = 1

C7_Witness ==
    /\ phase = "done"
    /\ Cardinality(Groups) = 2
    /\ Len(result.features) = 2
    /\ \A p \in Groups : \E ft \in FeaturesOf(result) : SeqToSet(ft.faces) = p

\* C8: the confidence of every emitted feature is the summed logit of its
\* winning class (the argmax of the per-class sums over its member faces)
\* divided by the number of member faces; being made of raw logits it may be
\* negative or exceed 1.
C8_ConfidenceIsMeanWinningLogit ==
    Handled =>
        \A ft \in FeaturesOf(result) :
            LET p == SeqToSet(ft.faces)
                k == TypeIndex(ft.type)
            IN  /\ Wins(p, k)
                /\ Cardinality(p) = Len(ft.faces)
                /\ ft.confidence = Rat(ClassSum(p, k), Cardinality(p))

C8_Witness ==
    /\ phase = "done"
    /\ \E ft \in FeaturesOf(result) : RatLess(ft.confidence, <<0, 1>>)
    /\ \E ft \in FeaturesOf(result) : RatLess(<<1, 1>>, ft.confidence)

\* the two requests gave the same node logits, affinity matrix and bottom flags
SameModelOutputs ==
    /\ replay.face_logits = face_logits
    /\ replay.adj = adj
    /\ replay.bottom_logits = bottom_logits

ResponsesEqual ==
    (phase = "replayed" /\ SameModelOutputs) => replay.result = result

\* Not a property of the code either: the same proposals and features when
\* the outputs of one head differ between the two runs.
FeaturesEqualOnAnyOutputs ==
    phase = "replayed" =>
        /\ SetIter(replay.proposals) = SetIter(proposals)
        /\ Len(replay.result.features) = Len(result.features)
        /\ \A i \in 1 .. Len(result.features) :
              /\ replay.result.features[i].type = result.features[i].type
              /\ replay.result.features[i].confidence = result.features[i].confidence
              /\ replay.result.features[i].bottoms = result.features[i].bottoms

----------------------------------------------------------------------------
(* Position and machining parameters *)

\* the centroid of a face, as the extractor computes it: the sum of its first
\* three vertices (to be divided by 3), per coordinate
CentroidSum(f, x) ==
    mesh.vertices[mesh.faces[f][1]][x] + mesh.vertices[mesh.faces[f][2]][x]
        + mesh.vertices[mesh.faces[f][3]][x]

RECURSIVE CentroidSumOver(_, _)
CentroidSumOver(group, x) ==
    IF group = {} THEN 0
    ELSE LET f == CHOOSE y \in group : TRUE
         IN  CentroidSum(f, x) + CentroidSumOver(group \ {f}, x)

\* the mean of the centroids of all faces of a group
MeanOfCentroids(group) ==
    [x \in 1 .. 3 |-> Rat(CentroidSumOver(group, x), 3 * Cardinality(group))]

\* C9 as stated: the position of every emitted feature is the mean of the
\* centroids of all its member faces.
C9_PositionIsMeanOfMembers ==
    phase = "done" =>
        \A ft \in FeaturesOf(result) : ft.position = MeanOfCentroids(SeqToSet(ft.faces))

\* C9 as amended: the position of every emitted feature is the centroid of one
\* representative face, the first face of its 'faces' list (the mean of the
\* first three vertices of that face); the other members do not enter it.
C9_PositionIsFirstFaceCentroid ==
    phase = "done" =>
        \A ft \in FeaturesOf(result) :
            ft.position = [x \in 1 .. 3 |-> Rat(CentroidSum(ft.faces[1], x), 3)]

C9_Witness ==
    /\ phase = "done"
    /\ \E ft \in FeaturesOf(result) :
          /\ Len(ft.faces) >= 2
          /\ ft.position = MeanOfCentroids({ft.faces[1]})
          /\ ft.position # MeanOfCentroids(SeqToSet(ft.faces))
          /\ MeanOfCentroids({ft.faces[2]}) # MeanOfCentroids({ft.faces[1]})

HoleTypes == {"through_hole", "blind_hole"}

PocketTypes == {"triangular_pocket", "rectangular_pocket", "6sides_pocket", "circular_end_pocket"}

SlotTypes == {"triangular_through_slot", "rectangular_through_slot", "circular_through_slot",
              "rectangular_blind_slot", "v_circular_end_blind_slot", "h_circular_end_blind_slot"}

\* C10 as stated: the machining parameters of a feature follow the policy of
\* the bucket of its type: hole types the HOLE policy with a plunge rate,
\* pocket types the POCKET policy with step-over and step-down, slot types the
\* SLOT policy with a step-down, all other types the DEFAULT policy.
C10_BucketPolicy ==
    phase = "done" =>
        \A ft \in FeaturesOf(result) :
            LET mp == ft.machining_params
                w  == ft.dimensions.width
            IN  /\ ft.type \in HoleTypes =>
                      /\ DOMAIN mp = {"tool_type", "tool_diameter", "speed", "feed_rate", "plunge_rate"}
                      /\ mp.tool_type = "drill" /\ mp.tool_diameter = Rat(w * 9, 10)
                /\ ft.type \in PocketTypes =>
                      /\ DOMAIN mp = {"tool_type", "tool_diameter", "speed", "feed_rate", "step_over", "step_down"}
                      /\ mp.tool_diameter = Rat(w * 3, 10)
                /\ ft.type \in SlotTypes =>
                      /\ DOMAIN mp = {"tool_type", "tool_diameter", "speed", "feed_rate", "step_down"}
                      /\ mp.tool_diameter = Rat(w * 8, 10)
                /\ ft.type \notin (HoleTypes \cup PocketTypes \cup SlotTypes) =>
                      /\ DOMAIN mp = {"tool_type", "tool_diameter", "speed", "feed_rate"}
                      /\ mp.tool_diameter = Rat(w * 5, 10)

----------------------------------------------------------------------------
(* Order of the feature list; shape of the affinity matrix *)

\* the row whose scan emitted a group
SeedRowOf(group) ==
    CHOOSE r \in SeedRows(num_faces) : TrueCols(r) \ UsedWhenReached(r) = group

\* the groups that become features, in the order the set yields them
ForegroundInSetOrder == SelectSeq(SetIter(proposals), LAMBDA p : ~WinsBackground(p))

\* C16 as stated: the feature list is in the order in which the increasing row
\* scan emitted the proposals: a feature seeded by a lower row precedes one
\* seeded by a higher row, and the ids aagnet_feature_0, 1, ... follow that order.
C16_FeaturesInEmissionOrder ==
    Handled =>
        /\ \A i \in 1 .. Len(result.features) : result.features[i].id = i - 1
        /\ \A i, j \in 1 .. Len(result.features) :
              i < j => SeedRowOf(SeqToSet(result.features[i].faces))
                         < SeedRowOf(SeqToSet(result.features[j].faces))

\* What the handler does instead: the feature list is in the order in which the
\* set of proposals yields its members (its hash-table order, which need not be
\* the order of emission), background proposals left out; the ids 0, 1, ...
\* number the features in list order.
FeaturesInSetOrder ==
    Handled =>
        /\ Len(result.features) = Len(ForegroundInSetOrder)
        /\ \A i \in 1 .. Len(result.features) :
              /\ result.features[i].id = i - 1
              /\ SeqToSet(result.features[i].faces) = ForegroundInSetOrder[i]

\* a run whose two features come out against the order of their seed rows
FeaturesAgainstSeedOrder ==
    /\ phase = "done"
    /\ Len(result.features) = 2
    /\ SeedRowOf(SeqToSet(result.features[2].faces))
         < SeedRowOf(SeqToSet(result.features[1].faces))
    /\ result.features[1].id = 0 /\ result.features[2].id = 1

\* C17: the affinity matrix handed to the clustering loop is symmetric with an
\* all-false diagonal, for every N and all pair logits: the diagonal of the
\* logit matrix is left at zero, which the sigmoid and the 0.5 threshold turn
\* into "no affinity"; for N = 1 the matrix is all-false.
C17_AffinitySymmetricNoDiagonal ==
    Handled =>
        /\ DOMAIN adj = Faces(num_faces)
        /\ \A i, j \in Faces(num_faces) :
              /\ adj[i][j] \in {0, 1}
              /\ adj[i][j] = adj[j][i]
              /\ adj[i][i] = 0
              /\ inst_out[i][i] = 0
              /\ (i # j => (adj[i][j] = 1 <=> inst_out[i][j] > 0))
        /\ (num_faces = 1 => AllFalse)

C17_Witness ==
    /\ phase = "done" /\ num_faces >= 3
    /\ \E i, j \in Faces(num_faces) : i # j /\ adj[i][j] = 1 /\ adj[j][i] = 1
    /\ \E i, j \in Faces(num_faces) : i # j /\ adj[i][j] = 0
    /\ \A i \in Faces(num_faces) : adj[i][i] = 0

----------------------------------------------------------------------------
(* The extractor *)

\* extract_aag_features has run: aag_features holds what it returned
ExtractionDone == phase \in {"extracted", "responded"}

Extracted == ExtractionDone /\ aag_features.raised = ""

\* the unordered pairs of distinct faces that the supplied adjacency marks,
\* in either direction; none when the mesh brings no adjacency
MarkedPairs ==
    IF "adjacency_matrix" \in DOMAIN mesh
    THEN { {i, j} : i \in Faces(num_faces), j \in Faces(num_faces) } \cap
         { pr \in SUBSET Faces(num_faces) :
              /\ Cardinality(pr) = 2
              /\ \E i \in pr, j \in pr :
                    i # j /\ mesh.adjacency_matrix[i][j] > 0 }
    ELSE {}

\* the pairs of the edge-index list
EdgePairs == { {aag_features.edge_indices[k][1], aag_features.edge_indices[k][2]} :
                  k \in DOMAIN aag_features.edge_indices }

SymmetricInput ==
    /\ "adjacency_matrix" \in DOMAIN mesh
    /\ \A i, j \in Faces(num_faces) :
          mesh.adjacency_matrix[i][j] = mesh.adjacency_matrix[j][i]

\* the edge attributes sit at the positions of their pairs
EdgesAligned ==
    /\ DOMAIN aag_features.edge_features = DOMAIN aag_features.edge_indices
    /\ \A k \in DOMAIN aag_features.edge_indices :
          aag_features.edge_features[k] =
              EdgeFeat(aag_features.node_features[aag_features.edge_indices[k][1]],
                       aag_features.node_features[aag_features.edge_indices[k][2]])

\* C11: the edge-index list holds exactly the unordered pairs of distinct faces
\* that the input marks adjacent, each once (M = number of adjacent pairs), the
\* edge attributes are aligned with it, and a mesh without adjacency gives no edge.
C11_EdgesExactlyAdjacentPairs ==
    (Extracted /\ "face_attributes" \in DOMAIN mesh) =>
        /\ EdgePairs = MarkedPairs
        /\ ArrayLen(aag_features.edge_indices) = Cardinality(MarkedPairs)
        /\ EdgesAligned

\* On a symmetric matrix the statement of C11 does hold, self-loops or not
EdgesExactOnSymmetricInput ==
    (Extracted /\ "face_attributes" \in DOMAIN mesh
       /\ ("adjacency_matrix" \in DOMAIN mesh => SymmetricInput)) =>
        /\ EdgePairs = MarkedPairs
        /\ ArrayLen(aag_features.edge_indices) = Cardinality(MarkedPairs)
        /\ EdgesAligned

\* a symmetric mesh with two edges, and a mesh without adjacency
SymmetricTwoEdges ==
    /\ Extracted /\ SymmetricInput /\ "face_attributes" \in DOMAIN mesh
    /\ ArrayLen(aag_features.edge_indices) = 2

\* the index of some face of the mesh is short, or points outside the vertices
BadFace(face) ==
    \/ Len(face) < 3
    \/ \E t \in 1 .. Len(face) : face[t] \notin 0 .. (ArrayLen(mesh.vertices) - 1)

\* C15: a face of fewer than 3 vertices, or with a vertex index out of range,
\* makes the extraction fail with an error; it is never skipped, so an
\* extraction that returns has exactly one row per face.
C15_BadFaceRaises ==
    (ExtractionDone /\ "faces" \in DOMAIN mesh) =>
        /\ (\E i \in Faces(num_faces) : BadFace(mesh.faces[i])) => aag_features.raised # ""
        /\ aag_features.raised = "" => ArrayLen(aag_features.node_features) = num_faces

\* what does hold: an index past the vertices among the first three of a face
\* of at least three raises; everything else returns
FallbackRaisesOnlyOnLookup ==
    (ExtractionDone /\ "faces" \in DOMAIN mesh) =>
        (aag_features.raised = "IndexError" <=>
            \E i \in Faces(num_faces) :
                /\ Len(mesh.faces[i]) >= 3
                /\ \E t \in 1 .. 3 : ~InRange(mesh.vertices, mesh.faces[i][t]))

\* a short face was skipped: fewer rows than faces, nothing raised
ShortFaceSkipped ==
    /\ Extracted /\ "faces" \in DOMAIN mesh
    /\ ArrayLen(aag_features.node_features) < num_faces

----------------------------------------------------------------------------
(* The request as a whole *)

Responded == phase = "responded"

\* the files whose download returned data, in listing order
ModelFiles == SelectSeq(request.storage.files, LAMBDA f : f.data.kind # "empty")

\* the position in ModelFiles of the first name ending in .pth that has
\* "weight" in it
IsFirstWeightFile(k) ==
    /\ IsPthWeightFile(ModelFiles[k].name)
    /\ \A h \in 1 .. (k - 1) : ~IsPthWeightFile(ModelFiles[h].name)

\* the checkpoint that load_trained_model unpickled, when it got that far
LoaderReached ==
    /\ Responded
    /\ raised.step \notin {"json.loads", "request_data.get", "storage.list"}
    /\ \E k \in 1 .. Len(ModelFiles) :
          IsFirstWeightFile(k) /\ ModelFiles[k].data.kind = "pickle"

LoadedCheckpoint ==
    ModelFiles[CHOOSE k \in 1 .. Len(ModelFiles) : IsFirstWeightFile(k)].data.checkpoint

\* the run ended in load_state_dict, or went on with these weights
LoadedFrom(mapping) ==
    IF DOMAIN mapping = ParamNames
    THEN raised.step # "load_trained_model" /\ model.weights = mapping
    ELSE raised.step = "load_trained_model" /\ raised.type = "RuntimeError"

\* C14: the weight mapping of a checkpoint is resolved by ordered lookup, first
\* match wins: the value of "model_state_dict" if the checkpoint has that key
\* (also when "state_dict" is there too), else the value of "state_dict" if it
\* has that key, else the whole checkpoint.
C14_CheckpointKeyOrder ==
    (LoaderReached /\ LoadedCheckpoint.is_dict) =>
        LET items == LoadedCheckpoint.items
        IN  IF "model_state_dict" \in DOMAIN items THEN LoadedFrom(items["model_state_dict"])
            ELSE IF "state_dict" \in DOMAIN items THEN LoadedFrom(items["state_dict"])
            ELSE LoadedFrom(items)

\* a checkpoint with both keys, both loadable: the model got "model_state_dict"
C14_Witness ==
    /\ LoaderReached /\ LoadedCheckpoint.is_dict
    /\ {"model_state_dict", "state_dict"} \subseteq DOMAIN LoadedCheckpoint.items
    /\ LoadedCheckpoint.items["state_dict"] = Weights(2)
    /\ raised.step # "load_trained_model"
    /\ model.weights = Weights(1)

\* C13: a request fails atomically: when any step raises, the response is the
\* structured error {error, status: "error"} and nothing else, without a feature
\* list; status "completed" comes only from a run in which no step raised; no
\* response carries both an error and features.
C13_FailsAtomically ==
    Responded =>
        /\ raised.type # "" =>
              /\ DOMAIN result = {"error", "status"}
              /\ result.status = "error"
              /\ result.error = raised.type
              /\ status_code = 500
        /\ raised.type = "" =>
              /\ result.status = "completed"
              /\ "error" \notin DOMAIN result
              /\ status_code = 200
        /\ ~({"error", "features"} \subseteq DOMAIN result)

\* a run that raised late, in the forward pass, after the model was loaded and
\* the mesh parsed and extracted
C13_Witness ==
    /\ Responded
    /\ raised.step = "forward"
    /\ num_faces = SimulatedFaces
    /\ ArrayLen(aag_features.node_features) = SimulatedFaces
    /\ model.weights = Weights(1)
    /\ DOMAIN result = {"error", "status"}

\* the run got as far as calling the model
ForwardReached == Responded /\ raised.step \in {"forward", ""}

\* C12: a graph with zero faces is not an error: the request completes with
\* status "completed" and an empty feature list, never with the error response.
C12_EmptyGraphCompletes ==
    (Responded /\ num_faces = 0) =>
        /\ result.status = "completed"
        /\ result.features = <<>>

\* C18: on the 10-column rows of the extractor, the encoder as configured by
\* load_trained_model runs: the width after step 1 is the width the attention
\* blocks are built for, and the forward pass does not fail on a shape mismatch.
C18_TenColumnInputRuns ==
    (ForwardReached /\ num_faces >= 1) =>
        /\ EmbeddingWidth(model, <<num_faces, NodeAttrDim>>) = model.feature_dim
        /\ raised.type = ""

\* what does happen: every run that reaches the model ends in its error
ForwardAlwaysRaises ==
    ForwardReached =>
        /\ raised.step = "forward"
        /\ raised.type = (IF ArrayLen(aag_features.node_features) = 0
                          THEN "IndexError" ELSE "AssertionError")
        /\ result.status = "error"

====
